---- MODULE Spec2Model ----
(***************************************************************************)
(* Model of the monster-backend habit tracker: the XP ledger, the levelling *)
(* policy, the Hell Week challenge and the battle lifecycle, as implemented *)
(* by the two sets of request handlers of the repository: the standalone     *)
(* server (src/server.js lines 1-670) and the serverless entry point        *)
(* (src/server.js lines 672-1151), both over the Mongoose models User and   *)
(* Habit.  Every request handler is one atomic action over the store.       *)
(***************************************************************************)
EXTENDS Integers, Sequences, FiniteSets, TLC

VARIABLES
    users,      \* the User collection: user id -> document
    habits,     \* the Habit collection: habit id -> document
    now,        \* the wall clock, in milliseconds
    last,       \* the last request served: its inputs, its response, and
                \* what the store held for it before it ran
    calls       \* the requests in flight whose handler is suspended at an
                \* await: call id -> the handler's position and its locals

vars == <<users, habits, now, last, calls>>

----------------------------------------------------------------------------
(* Bounds of the model *)

\* ids a request may name as a user (registered or not)
NumUsers == 2
\* ids a request may name as a habit; also the size of the habit table
MaxHabits == 2
\* calendar dates a toggle request may name
NumDates == 2
\* the clock advances at most this many half-windows
MaxTicks == 2
\* operations that would raise platformXp above this are not taken
MaxXp == 1500
\* the levelling policy is examined on 0..MaxLevelXp
MaxLevelXp == 20100
\* the ledger over several dates is examined while platformXp is at most this
MaxLedgerXp == 1070
\* the clock of the battles advances at most this many days
MaxDays == 4
\* a friends list and a queue of friend requests hold at most this many entries
MaxEntries == 2
\* at most this many requests are in flight together
MaxCalls == 2

UserIds == 1..NumUsers
HabitIds == 1..MaxHabits
Dates == 1..NumDates
\* the first of the dates
Today == CHOOSE d \in Dates : \A e \in Dates : d <= e

----------------------------------------------------------------------------
(* Values of the documents *)

\* a Date field that is undefined
NoDate == -1
\* an ObjectId / String reference that is null or undefined
NoId == 0

UNDO_WINDOW_MS == 60000
WeekMs == 7 * 24 * 60 * 60 * 1000
\* the clock moves in steps of half the undo window
TickMs == UNDO_WINDOW_MS \div 2

Max(a, b) == IF a >= b THEN a ELSE b

\* JavaScript's x || d on a number
OrDefault(x, d) == IF x = 0 THEN d ELSE x

\* a friendCode that is undefined
NoCode == [code |-> 0, upper |-> TRUE]

\* a User document as the schema's defaults make it
NewUser ==
    [platformXp     |-> 0,
     level          |-> 1,
     hellWeek       |-> [isActive |-> FALSE, startDate |-> NoDate, targetDate |-> NoDate],
     friendCode     |-> NoCode,
     friends        |-> << >>,
     friendRequests |-> << >>]

\* a Habit document as the schema's defaults make it
NewHabit(userId) ==
    [userId          |-> userId,
     partnerId       |-> NoId,
     sharedGroupId   |-> NoId,
     type            |-> "solo",
     battleStatus    |-> "active",
     battleDuration  |-> 7,
     battleStartDate |-> NoDate,
     battleWinner    |-> NoId,
     isVisible       |-> TRUE,
     completedDates  |-> << >>,
     xpGrantedDates  |-> << >>,
     currentStreak   |-> 0]

----------------------------------------------------------------------------
(* Levelling policy *)

LEVEL_THRESHOLDS == <<0, 100, 300, 600, 1000, 1500, 2100, 2800, 3600, 5000, 10000, 20000>>

\* the loop of calculateLevel: i is the JavaScript index, LEVEL_THRESHOLDS[i + 1]
\* its entry
RECURSIVE calculateLevelLoop(_, _, _)
calculateLevelLoop(xp, i, level) ==
    IF i < Len(LEVEL_THRESHOLDS)
    THEN IF xp >= LEVEL_THRESHOLDS[i + 1]
         THEN calculateLevelLoop(xp, i + 1, i + 1)
         ELSE level
    ELSE level

\* a policy that promotes only above a threshold, never at it: C6 tells it
\* from calculateLevel at every threshold
RECURSIVE StrictLevelLoop(_, _, _)
StrictLevelLoop(xp, i, level) ==
    IF i < Len(LEVEL_THRESHOLDS)
    THEN IF xp > LEVEL_THRESHOLDS[i + 1]
         THEN StrictLevelLoop(xp, i + 1, i + 1)
         ELSE level
    ELSE level

calculateLevelStrict(xp) == StrictLevelLoop(xp, 1, 1)

calculateLevel(xp) == calculateLevelLoop(xp, 1, 1)

----------------------------------------------------------------------------
(* Array helpers *)

\* Array.prototype.indexOf: the 0-based index of the first x, or -1
RECURSIVE IndexFrom(_, _, _)
IndexFrom(s, x, i) ==
    IF i > Len(s) THEN -1
    ELSE IF s[i] = x THEN i - 1
    ELSE IndexFrom(s, x, i + 1)

indexOf(s, x) == IndexFrom(s, x, 1)

\* Array.prototype.splice(i, 1) with a 0-based i
splice(s, i) == [k \in 1..(Len(s) - 1) |-> IF k <= i THEN s[k] ELSE s[k + 1]]

\* insertion of x into a sorted sequence
RECURSIVE Insert(_, _)
Insert(s, x) ==
    IF s = << >> THEN <<x>>
    ELSE IF x < Head(s) THEN <<x>> \o s
    ELSE <<Head(s)>> \o Insert(Tail(s), x)

\* an array left in the order of its pushes: C22 tells it from sort when an
\* earlier date is checked after a later one
asPushed(s) == s

\* Array.prototype.sort on date strings YYYY-MM-DD, whose order is the dates'
RECURSIVE sort(_)
sort(s) == IF s = << >> THEN << >> ELSE Insert(sort(Tail(s)), Head(s))

\* xpGrantedDates.find(entry => entry.date === date): the 1-based position of
\* the first match, or 0
RECURSIVE FindFrom(_, _, _)
FindFrom(s, date, i) ==
    IF i > Len(s) THEN 0
    ELSE IF s[i].date = date THEN i
    ELSE FindFrom(s, date, i + 1)

findGrant(s, date) == FindFrom(s, date, 1)

\* xpGrantedDates.filter(entry => entry.date !== date)
filterGrants(s, date) == SelectSeq(s, LAMBDA e : e.date # date)

----------------------------------------------------------------------------
(* The record of the last request *)

\* the inputs a request may carry and the documents a listing answers (their
\* ids); one that a request does not carry keeps the value given here
NoArgs ==
    [uid |-> NoId, hid |-> NoId, date |-> 0, action |-> "", partner |-> NoId,
     duration |-> 0, answer |-> {}]

\* what the store held before the request for the user and the habit date it
\* names, with the habit's battleStatus and the other records of its battle
\* group
PreState(uid, hid, date) ==
    LET known   == uid \in DOMAIN users
        dated   == hid \in DOMAIN habits /\ date # 0
        grantPos == IF dated THEN findGrant(habits[hid].xpGrantedDates, date) ELSE 0
    IN  [preXp     |-> IF known THEN users[uid].platformXp ELSE -1,
         preLevel  |-> IF known THEN users[uid].level ELSE -1,
         preActive |-> IF known THEN users[uid].hellWeek.isActive ELSE FALSE,
         preDone   |-> IF dated THEN indexOf(habits[hid].completedDates, date) > -1
                       ELSE FALSE,
         preGrant  |-> IF grantPos > 0
                       THEN habits[hid].xpGrantedDates[grantPos].grantedAt
                       ELSE NoDate,
         preStatus |-> IF hid \in DOMAIN habits THEN habits[hid].battleStatus ELSE "",
         prePeers  |-> IF hid \in DOMAIN habits /\ habits[hid].sharedGroupId # NoId
                       THEN {o \in DOMAIN habits \ {hid} :
                               habits[o].sharedGroupId = habits[hid].sharedGroupId}
                       ELSE {}]

\* app: "server" (lines 1-670) or "api" (lines 672-1151); status: the HTTP
\* status of the response, 0 when the handler ends without sending one;
\* sinceSame: for a toggle that follows a toggle of the same habit and date
\* with no request in between, the time since that toggle, otherwise -1
Request(app, op, status, args) ==
    LET in == args @@ NoArgs
    IN  [app |-> app, op |-> op, status |-> status, time |-> now,
         sinceSame |-> IF /\ op = "toggle" /\ last.op = "toggle"
                          /\ status = 200 /\ last.status = 200
                          /\ last.hid = in.hid /\ last.date = in.date
                       THEN now - last.time ELSE -1]
        @@ in @@ PreState(in.uid, in.hid, in.date)

\* a request that names no document of the store: 404, and the store is untouched
NotFound(app, op) == Request(app, op, 404, NoArgs)

----------------------------------------------------------------------------
(* server.js: POST /habits/:id/toggle *)

\* a window that is still open 60 seconds after the grant: C3 tells it from
\* InUndoWindow at exactly 60 seconds
InUndoWindowInclusive(grantedAt, t) ==
    grantedAt # NoDate /\ (t - grantedAt) <= UNDO_WINDOW_MS

\* line 218: grantedAt && (now - grantedAt) < UNDO_WINDOW_MS
InUndoWindow(grantedAt, t) ==
    grantedAt # NoDate /\ (t - grantedAt) < UNDO_WINDOW_MS

\* lines 203-240: the habit's ledger after the toggle, and the XP it signals
ToggleLedger(habit, date, t) ==
    LET existsIndex == indexOf(habit.completedDates, date)
        grantPos    == findGrant(habit.xpGrantedDates, date)
        grantedAt   == IF grantPos > 0 THEN habit.xpGrantedDates[grantPos].grantedAt
                       ELSE NoDate
        refund      == /\ existsIndex > -1
                       /\ grantPos > 0
                       /\ InUndoWindow(grantedAt, t)
        grant       == existsIndex = -1 /\ grantPos = 0
        completed   == IF existsIndex > -1
                       THEN splice(habit.completedDates, existsIndex)
                       ELSE Append(habit.completedDates, date)
        granted     == IF refund THEN filterGrants(habit.xpGrantedDates, date)
                       ELSE IF grant
                            THEN Append(habit.xpGrantedDates,
                                        [date |-> date, grantedAt |-> t])
                            ELSE habit.xpGrantedDates
    IN  [habit |-> [habit EXCEPT !.completedDates = sort(completed),
                                 !.xpGrantedDates = granted,
                                 !.currentStreak  = Len(completed)],
         xpChange |-> IF refund THEN -15 ELSE IF grant THEN 15 ELSE 0]

\* a multiplier that adds 20 to a refund as it does to an award: C2 tells it
\* from HellWeekMultiplier, as a check and its undo then net 40
HellWeekMultiplierUp(xpChange) == xpChange + 20

\* line 249: the Hell Week multiplier
HellWeekMultiplier(xpChange) ==
    IF xpChange > 0 THEN xpChange + 20 ELSE xpChange - 20

\* an update that floors the signalled change at 0 and inflates afterwards:
\* C29 tells it from ApplyXp on an undo in Hell Week with less than 35 XP
ApplyXpFloorFirst(user, xpChange) ==
    LET base == Max(0, user.platformXp + xpChange)
        xp   == IF user.hellWeek.isActive
                THEN HellWeekMultiplier(xpChange) - xpChange + base
                ELSE base
    IN  [user EXCEPT !.platformXp = xp,
                     !.level = Max(OrDefault(user.level, 1), calculateLevel(xp))]

\* an update that adds the XP and leaves the level as it was: C32 tells it
\* from ApplyXp on the toggle that takes the XP across a threshold
ApplyXpLevelKept(user, xpChange) ==
    LET change == IF user.hellWeek.isActive
                  THEN HellWeekMultiplier(xpChange)
                  ELSE xpChange
    IN  [user EXCEPT !.platformXp = Max(0, user.platformXp + change)]

\* lines 246-256: the user after the XP change (xpChange is not 0)
ApplyXp(user, xpChange) ==
    LET change == IF user.hellWeek.isActive
                  THEN HellWeekMultiplier(xpChange)
                  ELSE xpChange
        xp     == Max(0, user.platformXp + change)
    IN  [user EXCEPT !.platformXp = xp,
                     !.level = Max(OrDefault(user.level, 1), calculateLevel(xp))]

Toggle(id, date) ==
    IF id \notin DOMAIN habits
    THEN /\ last' = NotFound("server", "toggle")
         /\ UNCHANGED <<users, habits, now, calls>>
    ELSE LET r     == ToggleLedger(habits[id], date, now)
             owner == habits[id].userId
         IN  /\ habits' = [habits EXCEPT ![id] = r.habit]
             /\ IF owner \in DOMAIN users /\ r.xpChange # 0
                THEN /\ ApplyXp(users[owner], r.xpChange).platformXp <= MaxXp
                     /\ users' = [users EXCEPT ![owner] = ApplyXp(users[owner], r.xpChange)]
                ELSE UNCHANGED users
             /\ last' = Request("server", "toggle", 200,
                                [uid |-> owner, hid |-> id, date |-> date])
             /\ UNCHANGED <<now, calls>>

----------------------------------------------------------------------------
(* server.js: POST /user/:userId/hell-week *)

HellWeekActions == {"start", "surrender", "fail", "complete", "other"}

HellWeekEnded == [isActive |-> FALSE, startDate |-> NoDate, targetDate |-> NoDate]

\* a completion that stores the level of the new XP whatever the level was:
\* C9 tells it from Completed where the level was above the policy's
CompletedRecomputed(user) ==
    [user EXCEPT !.hellWeek = HellWeekEnded,
                 !.platformXp = user.platformXp + 1000,
                 !.level = calculateLevel(user.platformXp + 1000)]

\* lines 298-300: the user after a complete
Completed(user) ==
    LET xp == user.platformXp + 1000
    IN  [user EXCEPT !.hellWeek = HellWeekEnded,
                     !.platformXp = xp,
                     !.level = Max(OrDefault(user.level, 1), calculateLevel(xp))]

\* lines 273-303: the user after the action, and the response's status (0: the
\* handler sends no response)
HellWeekResult(user, action, t) ==
    IF action = "start"
    THEN IF user.hellWeek.isActive THEN [user |-> user, status |-> 400]
         ELSE IF OrDefault(user.level, 1) < 4 THEN [user |-> user, status |-> 400]
         ELSE [user |-> [user EXCEPT !.hellWeek =
                            [isActive |-> TRUE, startDate |-> t,
                             targetDate |-> t + 7 * 24 * 60 * 60 * 1000]],
               status |-> 200]
    ELSE IF action = "surrender"
    THEN [user |-> [user EXCEPT !.hellWeek = HellWeekEnded,
                                !.platformXp = Max(0, user.platformXp - 700)],
          status |-> 200]
    ELSE IF action = "fail"
    THEN [user |-> [user EXCEPT !.hellWeek = HellWeekEnded,
                                !.platformXp = Max(0, user.platformXp - 500)],
          status |-> 200]
    ELSE IF action = "complete"
    THEN [user |-> Completed(user), status |-> 200]
    ELSE [user |-> user, status |-> 0]

HellWeek(userId, action) ==
    IF userId \notin DOMAIN users
    THEN /\ last' = NotFound("server", "hellWeek")
         /\ UNCHANGED <<users, habits, now, calls>>
    ELSE LET r == HellWeekResult(users[userId], action, now)
         IN  /\ r.user.platformXp <= MaxXp
             /\ users' = [users EXCEPT ![userId] = r.user]
             /\ last' = Request("server", "hellWeek", r.status,
                                [uid |-> userId, action |-> action])
             /\ UNCHANGED <<habits, now, calls>>

----------------------------------------------------------------------------
(* server.js: GET /user/:id *)

\* lines 654-660: the self-healing recompute of the level
SelfHeal(user) ==
    LET calculatedLevel == calculateLevel(user.platformXp)
    IN  IF calculatedLevel > OrDefault(user.level, 1)
        THEN [user EXCEPT !.level = calculatedLevel]
        ELSE user

GetUser(id) ==
    IF id \notin DOMAIN users
    THEN /\ last' = NotFound("server", "getUser")
         /\ UNCHANGED <<users, habits, now, calls>>
    ELSE /\ users' = [users EXCEPT ![id] = SelfHeal(users[id])]
         /\ last' = Request("server", "getUser", 200, [uid |-> id])
         /\ UNCHANGED <<habits, now, calls>>

----------------------------------------------------------------------------
(* server.js: POST /battles/surrender *)

\* Habit.findOne({sharedGroupId: myHabit.sharedGroupId, _id: {$ne: myHabit._id}}):
\* the documents the filter matches (a null sharedGroupId matches every other
\* document whose sharedGroupId is null)
Opponents(id) ==
    {o \in DOMAIN habits \ {id} : habits[o].sharedGroupId = habits[id].sharedGroupId}

\* findOne answers one of the matching documents, or null (NoId)
OpponentChoices(id) == IF Opponents(id) = {} THEN {NoId} ELSE Opponents(id)

\* a surrender that names the owner of each record its winner: C14 tells it
\* from Surrendered on the record of the user who surrenders
SurrenderedSelf(habit, winner) ==
    [habit EXCEPT !.battleStatus = "completed", !.battleWinner = habit.userId]

\* lines 453-454 and 457-458: a record marked lost to winner
Surrendered(habit, winner) ==
    [habit EXCEPT !.battleStatus = "completed", !.battleWinner = winner]

\* a penalty without the floor: C4 tells it from SurrenderPenalty when the
\* user holds less than 100
SurrenderPenaltyUnfloored(user) ==
    [user EXCEPT !.platformXp = user.platformXp - 100]

\* lines 464-468: the surrendering user pays the penalty
SurrenderPenalty(user) ==
    [user EXCEPT !.platformXp = Max(0, user.platformXp - 100)]

BattleSurrender(habitId) ==
    IF habitId \notin DOMAIN habits
    THEN /\ last' = NotFound("server", "battleSurrender")
         /\ UNCHANGED <<users, habits, now, calls>>
    ELSE \E opp \in OpponentChoices(habitId) :
         LET myHabit == habits[habitId]
             winner  == myHabit.partnerId
         IN  /\ habits' = [h \in DOMAIN habits |->
                             IF h = habitId \/ h = opp
                             THEN Surrendered(habits[h], winner)
                             ELSE habits[h]]
             /\ IF myHabit.userId \in DOMAIN users
                THEN users' = [users EXCEPT ![myHabit.userId] =
                                   SurrenderPenalty(users[myHabit.userId])]
                ELSE UNCHANGED users
             /\ last' = Request("server", "battleSurrender", 200,
                                [uid |-> myHabit.userId, hid |-> habitId])
             /\ UNCHANGED <<now, calls>>

----------------------------------------------------------------------------
(* POST /habits *)

\* the _id of a new document: an ObjectId no stored document carries
FreeHabitIds == HabitIds \ DOMAIN habits

FreshId(free) == CHOOSE i \in free : \A j \in free : i <= j

\* new mongoose.Types.ObjectId().toString(): a token no stored habit carries
FreshGroupId ==
    CHOOSE g \in 1..(MaxHabits + 1) :
        /\ \A h \in DOMAIN habits : habits[h].sharedGroupId # g
        /\ \A k \in 1..(g - 1) : \E h \in DOMAIN habits : habits[h].sharedGroupId = k

\* the battleDuration a request may carry; 0 stands for none given
Durations == {0, 3}

\* server.js lines 156-164: the creator's document
CreatorHabit(userId, partnerId, sharedGroupId, battleDuration) ==
    [NewHabit(userId) EXCEPT
        !.partnerId      = partnerId,
        !.sharedGroupId  = sharedGroupId,
        !.type           = IF partnerId # NoId THEN "battle" ELSE "solo",
        !.battleStatus   = IF partnerId # NoId THEN "waiting" ELSE "active",
        !.isVisible      = IF partnerId # NoId THEN FALSE ELSE TRUE,
        !.battleDuration = OrDefault(battleDuration, 7)]

\* server.js lines 169-178: the invitee's document
PartnerHabit(userId, partnerId, sharedGroupId, battleDuration) ==
    [NewHabit(partnerId) EXCEPT
        !.partnerId      = userId,
        !.sharedGroupId  = sharedGroupId,
        !.type           = "battle",
        !.battleStatus   = "pending",
        !.isVisible      = FALSE,
        !.battleDuration = OrDefault(battleDuration, 7)]

\* server.js lines 779-786: the creator's document of the serverless handler,
\* which leaves isVisible to the schema's default
CreatorHabit2(userId, partnerId, sharedGroupId, battleDuration) ==
    [NewHabit(userId) EXCEPT
        !.partnerId      = partnerId,
        !.sharedGroupId  = sharedGroupId,
        !.type           = IF partnerId # NoId THEN "battle" ELSE "solo",
        !.battleStatus   = IF partnerId # NoId THEN "waiting" ELSE "active",
        !.battleDuration = OrDefault(battleDuration, 7)]

\* the two saves of the handler: habit.save(), then partnerHabit.save()
SaveCreated(app, creator, partner, userId, partnerId, battleDuration) ==
    LET id == FreshId(FreeHabitIds)
    IN  /\ FreeHabitIds # {}
        /\ partnerId # NoId => Cardinality(FreeHabitIds) >= 2
        /\ habits' = IF partnerId = NoId
                     THEN habits @@ (id :> creator)
                     ELSE habits @@ (id :> creator)
                                 @@ (FreshId(FreeHabitIds \ {id}) :> partner)
        /\ last' = Request(app, "createHabit", 201,
                           [uid |-> userId, hid |-> id, partner |-> partnerId,
                            duration |-> battleDuration])
        /\ UNCHANGED <<users, now, calls>>

\* server.js lines 146-186
CreateHabit(userId, partnerId, battleDuration) ==
    LET sharedGroupId == IF partnerId # NoId THEN FreshGroupId ELSE NoId
    IN  SaveCreated("server",
                    CreatorHabit(userId, partnerId, sharedGroupId, battleDuration),
                    PartnerHabit(userId, partnerId, sharedGroupId, battleDuration),
                    userId, partnerId, battleDuration)

\* server.js lines 770-807
CreateHabit2(userId, partnerId, battleDuration) ==
    LET sharedGroupId == IF partnerId # NoId THEN FreshGroupId ELSE NoId
    IN  SaveCreated("api",
                    CreatorHabit2(userId, partnerId, sharedGroupId, battleDuration),
                    PartnerHabit(userId, partnerId, sharedGroupId, battleDuration),
                    userId, partnerId, battleDuration)

----------------------------------------------------------------------------
(* DELETE /habits/:id (lines 320-327 and 863-870) *)

Without(f, ids) == [k \in DOMAIN f \ ids |-> f[k]]

DeleteHabit(app, id) ==
    /\ habits' = Without(habits, {id})
    /\ last' = Request(app, "deleteHabit", 200, [hid |-> id])
    /\ UNCHANGED <<users, now, calls>>

----------------------------------------------------------------------------
(* Serverless entry point: POST /habits/:id/toggle (lines 810-850) *)

\* lines 818-830
ToggleLedger2(habit, date) ==
    LET existsIndex == indexOf(habit.completedDates, date)
        completed   == IF existsIndex > -1
                       THEN splice(habit.completedDates, existsIndex)
                       ELSE Append(habit.completedDates, date)
    IN  [habit |-> [habit EXCEPT !.completedDates = sort(completed),
                                 !.currentStreak  = Len(completed)],
         xpChange |-> IF existsIndex > -1 THEN -15 ELSE 15]

\* lines 835-844
ApplyXp2(user, xpChange) ==
    LET change == IF user.hellWeek.isActive
                  THEN (IF xpChange > 0 THEN xpChange + 20 ELSE xpChange - 20)
                  ELSE xpChange
        xp     == Max(0, user.platformXp + change)
    IN  [user EXCEPT !.platformXp = xp, !.level = calculateLevel(xp)]

Toggle2(id, date) ==
    IF id \notin DOMAIN habits
    THEN /\ last' = NotFound("api", "toggle")
         /\ UNCHANGED <<users, habits, now, calls>>
    ELSE LET r     == ToggleLedger2(habits[id], date)
             owner == habits[id].userId
         IN  /\ habits' = [habits EXCEPT ![id] = r.habit]
             /\ IF owner \in DOMAIN users
                THEN /\ ApplyXp2(users[owner], r.xpChange).platformXp <= MaxXp
                     /\ users' = [users EXCEPT ![owner] = ApplyXp2(users[owner], r.xpChange)]
                ELSE UNCHANGED users
             /\ last' = Request("api", "toggle", 200,
                                [uid |-> owner, hid |-> id, date |-> date])
             /\ UNCHANGED <<now, calls>>

----------------------------------------------------------------------------
(* Serverless entry point: POST /user/:userId/hell-week (lines 873-899) *)

\* lines 881-895: an action that is neither start nor surrender changes
\* nothing, saves the user as read and sends no response
HellWeekResult2(user, action, t) ==
    IF action = "start"
    THEN IF user.hellWeek.isActive THEN [user |-> user, status |-> 400]
         ELSE [user |-> [user EXCEPT !.hellWeek =
                            [isActive |-> TRUE, startDate |-> t,
                             targetDate |-> t + 7 * 24 * 60 * 60 * 1000]],
               status |-> 200]
    ELSE IF action = "surrender"
    THEN [user |-> [user EXCEPT !.hellWeek = HellWeekEnded,
                                !.platformXp = Max(0, user.platformXp - 500)],
          status |-> 200]
    ELSE [user |-> user, status |-> 0]

HellWeek2(userId, action) ==
    IF userId \notin DOMAIN users
    THEN /\ last' = NotFound("api", "hellWeek")
         /\ UNCHANGED <<users, habits, now, calls>>
    ELSE LET r == HellWeekResult2(users[userId], action, now)
         IN  /\ users' = [users EXCEPT ![userId] = r.user]
             /\ last' = Request("api", "hellWeek", r.status,
                                [uid |-> userId, action |-> action])
             /\ UNCHANGED <<habits, now, calls>>

----------------------------------------------------------------------------
(* Serverless entry point: GET /user/:id (lines 902-922) *)

\* lines 911-916
FixLevel(user) ==
    LET calculatedLevel == calculateLevel(user.platformXp)
    IN  IF user.level # calculatedLevel
        THEN [user EXCEPT !.level = calculatedLevel]
        ELSE user

GetUser2(id) ==
    IF id \notin DOMAIN users
    THEN /\ last' = NotFound("api", "getUser")
         /\ UNCHANGED <<users, habits, now, calls>>
    ELSE /\ users' = [users EXCEPT ![id] = FixLevel(users[id])]
         /\ last' = Request("api", "getUser", 200, [uid |-> id])
         /\ UNCHANGED <<habits, now, calls>>

----------------------------------------------------------------------------
(* server.js: POST /battles/cancel (lines 373-392) *)

\* a cancel that deletes the habit it was given only: C13 tells it from
\* Cancelled
CancelledOwn(habitId, opp) == Without(habits, {habitId})

\* lines 380-386: the collection without the opponent's record and the
\* habit's own
Cancelled(habitId, opp) == Without(habits, {habitId, opp})

\* Habit.deleteOne deletes one of the documents the filter matches, then the
\* handler deletes the habit it was given
BattleCancel(habitId) ==
    IF habitId \notin DOMAIN habits
    THEN /\ last' = NotFound("server", "battleCancel")
         /\ UNCHANGED <<users, habits, now, calls>>
    ELSE \E opp \in OpponentChoices(habitId) :
         /\ habits' = Cancelled(habitId, opp)
         /\ last' = Request("server", "battleCancel", 200,
                            [uid |-> habits[habitId].userId, hid |-> habitId])
         /\ UNCHANGED <<users, now, calls>>

----------------------------------------------------------------------------
(* server.js: POST /battles/respond (lines 395-438) *)

RespondActions == {"accept", "reject", "other"}

\* an acceptance that leaves the record's isVisible as it is: C11 tells it
\* from Accepted on the invitee's record, which was created hidden
AcceptedUnseen(habit, startDate) ==
    [habit EXCEPT !.battleStatus = "active", !.battleStartDate = startDate]

\* lines 409-411 and 415-417
Accepted(habit, startDate) ==
    [habit EXCEPT !.battleStatus = "active", !.isVisible = TRUE,
                  !.battleStartDate = startDate]

\* a rejection that also shows the record: C12 tells it from Rejected
RejectedShown(habit) == [habit EXCEPT !.battleStatus = "rejected", !.isVisible = TRUE]

\* line 430
Rejected(habit) == [habit EXCEPT !.battleStatus = "rejected"]

BattleRespond(habitId, action) ==
    IF habitId \notin DOMAIN habits
    THEN /\ last' = NotFound("server", "battleRespond")
         /\ UNCHANGED <<users, habits, now, calls>>
    ELSE \E opp \in OpponentChoices(habitId) :
         /\ habits' =
              IF action = "accept"
              THEN [h \in DOMAIN habits |->
                       IF h = habitId \/ h = opp THEN Accepted(habits[h], now)
                       ELSE habits[h]]
              ELSE IF action = "reject"
              THEN [h \in DOMAIN habits \ {habitId} |->
                       IF h = opp THEN Rejected(habits[h]) ELSE habits[h]]
              ELSE habits
         /\ last' = Request("server", "battleRespond",
                            IF action \in {"accept", "reject"} THEN 200 ELSE 0,
                            [uid |-> habits[habitId].userId, hid |-> habitId,
                             action |-> action])
         /\ UNCHANGED <<users, now, calls>>

----------------------------------------------------------------------------
(* Serverless entry point: POST /battles/respond (lines 1080-1118) *)

\* lines 1097-1100: the opponent's record of an accepted battle, whose
\* isVisible the handler leaves as it is
Activated(habit, startDate) ==
    [habit EXCEPT !.battleStatus = "active", !.battleStartDate = startDate]

BattleRespond2(habitId, action) ==
    IF habitId \notin DOMAIN habits
    THEN /\ last' = NotFound("api", "battleRespond")
         /\ UNCHANGED <<users, habits, now, calls>>
    ELSE \E opp \in OpponentChoices(habitId) :
         /\ habits' =
              IF action = "accept"
              THEN [h \in DOMAIN habits |->
                       IF h = habitId THEN Accepted(habits[h], now)
                       ELSE IF h = opp THEN Activated(habits[h], now)
                       ELSE habits[h]]
              ELSE IF action = "reject"
              THEN [h \in DOMAIN habits \ {habitId} |->
                       IF h = opp THEN Rejected(habits[h]) ELSE habits[h]]
              ELSE habits
         /\ last' = Request("api", "battleRespond",
                            IF action \in {"accept", "reject"} THEN 200 ELSE 0,
                            [uid |-> habits[habitId].userId, hid |-> habitId,
                             action |-> action])
         /\ UNCHANGED <<users, now, calls>>

----------------------------------------------------------------------------
(* GET /habits (lines 108-143 and 755-767) *)

\* lines 133-137: Habit.find({userId, isVisible: {$ne: false},
\* battleStatus: {$ne: 'completed'}})
visibleHabits(userId) ==
    {h \in DOMAIN habits :
        /\ habits[h].userId = userId
        /\ habits[h].isVisible # FALSE
        /\ habits[h].battleStatus # "completed"}

GetHabits(app, userId) ==
    /\ last' = Request(app, "getHabits", 200,
                       [uid |-> userId, answer |-> visibleHabits(userId)])
    /\ UNCHANGED <<users, habits, now, calls>>

----------------------------------------------------------------------------
(* GET /battles (lines 477-510 and 1121-1149) *)

\* a day of the host's calendar (a host whose days all have 24 hours)
DayMs == 24 * 60 * 60 * 1000

\* a battle that is over from the instant its last day ends: C15 tells it from
\* Expired at that instant
ExpiredAtEnd(habit, t) ==
    /\ habit.battleStartDate # NoDate
    /\ t >= habit.battleStartDate + habit.battleDuration * DayMs

\* lines 485-490: endDate.setDate(endDate.getDate() + battleDuration);
\* now > endDate
Expired(habit, t) ==
    /\ habit.battleStartDate # NoDate
    /\ t > habit.battleStartDate + habit.battleDuration * DayMs

\* line 481: Habit.find({userId, type: 'battle', battleStatus: 'active'})
activeBattles(userId) ==
    {h \in DOMAIN habits :
        /\ habits[h].userId = userId
        /\ habits[h].type = "battle"
        /\ habits[h].battleStatus = "active"}

\* lines 484-497: the collection after the sweep of the user's battles
Swept(userId, t) ==
    [h \in DOMAIN habits |->
        IF h \in activeBattles(userId) /\ Expired(habits[h], t)
        THEN [habits[h] EXCEPT !.battleStatus = "completed"]
        ELSE habits[h]]

\* lines 500-504: the battles listed, read after the sweep
battles(hs, userId) ==
    {h \in DOMAIN hs :
        /\ hs[h].userId = userId
        /\ hs[h].type = "battle"
        /\ hs[h].battleStatus \in {"active", "completed"}}

GetBattles(app, userId) ==
    /\ habits' = Swept(userId, now)
    /\ last' = Request(app, "getBattles", 200,
                       [uid |-> userId, answer |-> battles(Swept(userId, now), userId)])
    /\ UNCHANGED <<users, now, calls>>

----------------------------------------------------------------------------
(* Texts of a request body *)

\* The text a request gives for an ObjectId names the id and is either the
\* text ObjectId.toString() produces (24 lower-case hexadecimal digits) or
\* another text that casts to the same id (the digits in upper case).
\* An undefined id has the one text.
IdTexts == {[id |-> NoId, canon |-> TRUE]} \cup [id : UserIds, canon : BOOLEAN]

\* the cast of a text to an ObjectId, as findById and push do it
castId(text) == text.id

\* ObjectId.prototype.toString(), and the id getter of a document
toString(id) == [id |-> id, canon |-> TRUE]

\* MongooseArray.includes on an array of ObjectIds, given a text: the text
\* is compared with the toString() of each element
includes(arr, text) == \E i \in 1..Len(arr) : toString(arr[i]) = text

\* The text a request gives for a friend code names the code and is in upper
\* case or not; the codes of the pre-save hook are in upper case.  Code
\* NumUsers + 1 is a well-formed code no user carries.
CodeTexts == [code : 1..(NumUsers + 1), upper : BOOLEAN]

\* String.prototype.toUpperCase()
toUpperCase(text) == [text EXCEPT !.upper = TRUE]

\* User.findOne({friendCode: code}): the id of the user, NoId for null
findByCode(code) ==
    IF \E u \in DOMAIN users : users[u].friendCode = code
    THEN CHOOSE u \in DOMAIN users : users[u].friendCode = code
    ELSE NoId

----------------------------------------------------------------------------
(* POST /social/add-friend (lines 515-537 and 927-948) *)

\* line 528: target.friendRequests.find(r => r.from.toString() === userId)
existingReq(queue, userId) ==
    \E i \in 1..Len(queue) : toString(queue[i].from) = userId

\* line 531: the entry pushed, with the schema's default timestamp
NewRequest(userId, t) ==
    [from |-> castId(userId), status |-> "pending", timestamp |-> t]

AddFriend(app, userId, friendCode) ==
    LET sender == castId(userId)
        target == findByCode(toUpperCase(friendCode))
        answer(status) ==
            /\ last' = Request(app, "addFriend", status,
                               [uid |-> sender, partner |-> target])
            /\ UNCHANGED <<users, habits, now, calls>>
    IN  IF target = NoId THEN answer(404)
        \* sender.id of a null sender throws, and the catch answers 500
        ELSE IF sender \notin DOMAIN users THEN answer(500)
        ELSE IF toString(sender) = toString(target) THEN answer(400)
        ELSE IF includes(users[sender].friends, toString(target)) THEN answer(400)
        ELSE IF existingReq(users[target].friendRequests, userId) THEN answer(400)
        ELSE /\ Len(users[target].friendRequests) < MaxEntries
             /\ users' = [users EXCEPT ![target].friendRequests =
                                          Append(@, NewRequest(userId, now))]
             /\ last' = Request(app, "addFriend", 200,
                                [uid |-> sender, partner |-> target])
             /\ UNCHANGED <<habits, now, calls>>

----------------------------------------------------------------------------
(* POST /social/handle-request (lines 540-563 and 951-973) *)

\* the action a request may carry; "" stands for any other value
HandleActions == {"accept", "reject", ""}

\* line 549: filter(r => r.from.toString() !== requesterId)
withoutRequests(queue, requesterId) ==
    SelectSeq(queue, LAMBDA r : toString(r.from) # requesterId)

\* lines 552-553: what the handler pushes onto a friends array for a text
pushed(friends, text) ==
    IF includes(friends, text) THEN << >> ELSE <<castId(text)>>

\* What user.save() does when user and requester are the same document,
\* loaded twice, and requester.save() has written: its own push and its
\* friendRequests are written as well ("saved"), or the save is refused
\* because the document's version has moved ("conflict") and the catch
\* answers 500.
SecondSaves == {"saved", "conflict"}

HandleRequest(app, userId, requesterId, action) ==
    LET user      == castId(userId)
        requester == castId(requesterId)
    IN  IF user \notin DOMAIN users \/ requester \notin DOMAIN users
        THEN /\ last' = Request(app, "handleRequest", 404,
                                [uid |-> user, partner |-> requester, action |-> action])
             /\ UNCHANGED <<users, habits, now, calls>>
        ELSE LET kept == withoutRequests(users[user].friendRequests, requesterId)
                 mine == IF action = "accept"
                         THEN pushed(users[user].friends, requesterId) ELSE << >>
                 theirs == IF action = "accept"
                           THEN pushed(users[requester].friends, userId) ELSE << >>
                 in == [uid |-> user, partner |-> requester, action |-> action]
             IN  IF user # requester
                 THEN /\ Len(users[user].friends \o mine) <= MaxEntries
                      /\ Len(users[requester].friends \o theirs) <= MaxEntries
                      /\ users' = [users EXCEPT
                                      ![requester].friends = @ \o theirs,
                                      ![user].friends = @ \o mine,
                                      ![user].friendRequests = kept]
                      /\ last' = Request(app, "handleRequest", 200, in)
                      /\ UNCHANGED <<habits, now, calls>>
                 ELSE \E second \in SecondSaves :
                      /\ second = "conflict" => theirs # << >>
                      /\ Len(users[user].friends \o theirs \o mine) <= MaxEntries
                      /\ users' = [users EXCEPT
                                      ![user].friends =
                                          IF second = "saved" THEN @ \o theirs \o mine
                                          ELSE @ \o theirs,
                                      ![user].friendRequests =
                                          IF second = "saved" THEN kept ELSE @]
                      /\ last' = Request(app, "handleRequest",
                                         IF second = "saved" THEN 200 ELSE 500, in)
                      /\ UNCHANGED <<habits, now, calls>>

----------------------------------------------------------------------------
(* POST /register (server.js lines 62-72) and the friend-code pre-save hook  *)
(* of the User model (lines 72-95), one step per stretch between two awaits  *)

\* line 76: the characters of a friend code
chars ==
    <<"A", "B", "C", "D", "E", "F", "G", "H", "I", "J", "K", "L", "M",
      "N", "O", "P", "Q", "R", "S", "T", "U", "V", "W", "X", "Y", "Z",
      "0", "1", "2", "3", "4", "5", "6", "7", "8", "9">>

\* String.prototype.charAt with a 0-based index
charAt(str, i) == str[i + 1]

\* the values of Math.floor(Math.random() * chars.length) the model draws:
\* the first index and the last
RandomIndexes == {0, Len(chars) - 1}

\* line 83: the loop bound of the code's characters
CodeLength == 5

\* lines 82-85: the draws of one round of the loop
Draws == [1..CodeLength -> RandomIndexes]

\* lines 82-85: the code the draws spell
codeOf(draws) == [i \in 1..CodeLength |-> charAt(chars, draws[i])]

\* line 88: this.constructor.findOne({ friendCode: code })
existing(code) == \E u \in DOMAIN users : users[u].friendCode.code = code

\* a store without the index: C21 tells it from uniqueIndex when two saves
\* run together
noIndex(code) == TRUE

\* part_000 lines 39-43: the unique index of friendCode admits the write
uniqueIndex(code) == ~ \E u \in DOMAIN users : users[u].friendCode.code = code

\* the call has not begun, or has ended
Idle(p) == p \notin DOMAIN calls

\* new User({ email, password }); user.save(): the hook finds no friendCode
\* on the new document, generates a code and awaits findOne
RegisterBegin(p) ==
    /\ Idle(p) /\ p \notin DOMAIN users
    /\ \E draws \in Draws :
          calls' = calls @@ (p :> [op |-> "register", pc |-> "findOne",
                                   code |-> codeOf(draws)])
    /\ UNCHANGED <<users, habits, now, last>>

\* lines 88-93: findOne has answered; a code that is taken sends the loop
\* round again, a free one is assigned and the document goes to the store
RegisterFindOne(p) ==
    /\ ~ Idle(p) /\ calls[p].op = "register" /\ calls[p].pc = "findOne"
    /\ IF existing(calls[p].code)
       THEN \E draws \in Draws :
              calls' = [calls EXCEPT ![p].code = codeOf(draws)]
       ELSE calls' = [calls EXCEPT ![p].pc = "insert"]
    /\ UNCHANGED <<users, habits, now, last>>

\* the insert of the document: the store refuses a friendCode that a stored
\* user carries, save() rejects and the handler answers 400 (line 70)
RegisterInsert(p) ==
    /\ ~ Idle(p) /\ calls[p].op = "register" /\ calls[p].pc = "insert"
    /\ IF uniqueIndex(calls[p].code)
       THEN /\ users' = users @@
                  (p :> [NewUser EXCEPT !.friendCode =
                                           [code |-> calls[p].code, upper |-> TRUE]])
            /\ last' = Request("server", "register", 201, [uid |-> p])
       ELSE /\ users' = users
            /\ last' = Request("server", "register", 400, [uid |-> p])
    /\ calls' = Without(calls, {p})
    /\ UNCHANGED <<habits, now>>

----------------------------------------------------------------------------
(* POST /battles/respond with action accept (lines 395-422), one step per    *)
(* stretch between two awaits, and a request that stops on its way           *)

\* the requests that may be in flight together
CallIds == 1..MaxCalls

\* an acceptance that saves the responder's record first: C26 tells it from
\* acceptWrites by the record that is left behind
acceptWritesMineFirst(habitId, opp) ==
    IF opp = NoId THEN <<habitId>> ELSE <<habitId, opp>>

\* lines 418 and 421: the documents saved, in the order of their save()
acceptWrites(habitId, opp) ==
    IF opp = NoId THEN <<habitId>> ELSE <<opp, habitId>>

\* lines 398-411: findById and findOne have answered (was: the battleStatus
\* findById read), and the two documents are changed in memory; the handler
\* awaits the first save()
AcceptBegin(c, habitId) ==
    /\ Idle(c)
    /\ habitId \in DOMAIN habits
    /\ \E opp \in OpponentChoices(habitId) :
          calls' = calls @@ (c :> [op |-> "accept", hid |-> habitId,
                                   was |-> habits[habitId].battleStatus,
                                   startDate |-> now,
                                   writes |-> acceptWrites(habitId, opp),
                                   saved |-> 0])
    /\ UNCHANGED <<users, habits, now, last>>

\* lines 418-422: the next save() writes its document; after the last one
\* the handler answers 200
AcceptSave(c) ==
    /\ ~ Idle(c) /\ calls[c].op = "accept"
    /\ LET h == calls[c].writes[calls[c].saved + 1]
       IN  /\ h \in DOMAIN habits
           /\ habits' = [habits EXCEPT ![h] = Accepted(@, calls[c].startDate)]
           /\ IF calls[c].saved + 1 = Len(calls[c].writes)
              THEN /\ calls' = Without(calls, {c})
                   /\ last' = Request("server", "battleRespond", 200,
                                      [uid |-> habits[calls[c].hid].userId,
                                       hid |-> calls[c].hid, action |-> "accept"])
              ELSE /\ calls' = [calls EXCEPT ![c].saved = @ + 1]
                   /\ UNCHANGED last
    /\ UNCHANGED <<users, now>>

\* how a request stops before its last save(): the process dies and nothing
\* is answered, or the save() rejects and the catch (line 435) answers 500
Stops == {"crash", "failed save"}

AcceptStop(c) ==
    /\ ~ Idle(c) /\ calls[c].op = "accept"
    /\ calls' = Without(calls, {c})
    /\ \E how \in Stops :
          IF how = "crash" THEN UNCHANGED last
          ELSE last' = Request("server", "battleRespond", 500,
                               [uid |-> NoId, hid |-> calls[c].hid, action |-> "accept"])
    /\ UNCHANGED <<users, habits, now>>

----------------------------------------------------------------------------
(* The clock *)

Tick ==
    /\ now + TickMs <= MaxTicks * TickMs
    /\ now' = now + TickMs
    /\ UNCHANGED <<users, habits, last, calls>>

\* the clock moves by whole days
DayTick ==
    /\ now + DayMs <= MaxDays * DayMs
    /\ now' = now + DayMs
    /\ UNCHANGED <<users, habits, last, calls>>

\* the requests of a run all go to one of the two programs: the one that
\* served the first
Runs(app) == last.app \in {"", app}

\* no request has been served yet
NoRequest ==
    [app |-> "", op |-> "init", status |-> 0, time |-> 0, sinceSame |-> -1,
     preXp |-> -1,
     preLevel |-> -1, preActive |-> FALSE, preDone |-> FALSE, preGrant |-> NoDate,
     preStatus |-> "", prePeers |-> {}]
    @@ NoArgs

----------------------------------------------------------------------------
(* The standalone server with one registered user who owns one solo habit:  *)
(* the XP and level of the user under toggles of one date of the habit, the  *)
(* Hell Week actions, get-user and battle surrender                          *)

Init ==
    /\ users = (1 :> NewUser)
    /\ habits = (1 :> NewHabit(1))
    /\ now = 0
    /\ last = NoRequest
    /\ calls = << >>

Next ==
    \/ \E id \in HabitIds : Toggle(id, Today)
    \/ \E u \in UserIds, a \in HellWeekActions : HellWeek(u, a)
    \/ \E u \in UserIds : GetUser(u)
    \/ \E id \in HabitIds : BattleSurrender(id)
    \/ Tick

Spec == Init /\ [][Next]_vars

----------------------------------------------------------------------------
(* The standalone server's toggle ledger: the same store, under toggles of   *)
(* every date, the clock, and the two Hell Week actions that bring a new     *)
(* user into Hell Week (complete, which lines 296-303 grant to a user who    *)
(* never started, and start), while platformXp is at most MaxLedgerXp        *)

\* the Hell Week actions of the ledger's requests
LedgerActions == {"complete", "start"}

\* the step leaves every platformXp within the ledger's range
WithinLedger == \A u \in DOMAIN users' : users'[u].platformXp <= MaxLedgerXp

NextLedger ==
    \/ \E id \in HabitIds, date \in Dates : Toggle(id, date) /\ WithinLedger
    \/ \E u \in UserIds, a \in LedgerActions : HellWeek(u, a) /\ WithinLedger
    \/ Tick

SpecLedger == Init /\ [][NextLedger]_vars

----------------------------------------------------------------------------
(* The serverless entry point with one registered user and an empty Habit    *)
(* collection                                                                *)

InitApi ==
    /\ users = (1 :> NewUser)
    /\ habits = << >>
    /\ now = 0
    /\ last = NoRequest
    /\ calls = << >>

NextApi ==
    \/ \E u \in DOMAIN users : CreateHabit2(u, NoId, 0)
    \/ \E id \in HabitIds : DeleteHabit("api", id)
    \/ \E id \in HabitIds, date \in Dates : Toggle2(id, date)
    \/ \E u \in UserIds, a \in HellWeekActions : HellWeek2(u, a)
    \/ \E u \in UserIds : GetUser2(u)

SpecApi == InitApi /\ [][NextApi]_vars

----------------------------------------------------------------------------
(* The standalone server's levels: the requests of Spec without the clock,   *)
(* for a user who is new or holds 90 XP at level 1 (six checks of habits     *)
(* since deleted), so that one more check crosses the threshold of level 2   *)

ClimbXps == {0, 90}

InitClimb ==
    /\ users \in {(1 :> [NewUser EXCEPT !.platformXp = xp]) : xp \in ClimbXps}
    /\ habits = (1 :> NewHabit(1))
    /\ now = 0
    /\ last = NoRequest
    /\ calls = << >>

NextClimb ==
    \/ \E id \in HabitIds : Toggle(id, Today)
    \/ \E u \in UserIds, a \in HellWeekActions : HellWeek(u, a)
    \/ \E u \in UserIds : GetUser(u)
    \/ \E id \in HabitIds : BattleSurrender(id)

SpecClimb == InitClimb /\ [][NextClimb]_vars

----------------------------------------------------------------------------
(* The battle lifecycle with two registered users and an empty Habit          *)
(* collection, under the standalone server or under the serverless entry     *)
(* point                                                                     *)

InitBattle ==
    /\ users = [u \in UserIds |-> NewUser]
    /\ habits = << >>
    /\ now = 0
    /\ last = NoRequest
    /\ calls = << >>

NextBattle ==
    \/ \E u \in UserIds, p \in {NoId} \cup UserIds, d \in Durations :
          Runs("server") /\ CreateHabit(u, p, d)
    \/ \E id \in HabitIds : Runs("server") /\ DeleteHabit("server", id)
    \/ \E id \in HabitIds : Runs("server") /\ BattleCancel(id)
    \/ \E id \in HabitIds, a \in RespondActions : Runs("server") /\ BattleRespond(id, a)
    \/ \E id \in HabitIds : Runs("server") /\ BattleSurrender(id)
    \/ \E u \in UserIds : Runs("server") /\ GetHabits("server", u)
    \/ \E u \in UserIds, p \in {NoId} \cup UserIds, d \in Durations :
          Runs("api") /\ CreateHabit2(u, p, d)
    \/ \E id \in HabitIds : Runs("api") /\ DeleteHabit("api", id)
    \/ \E id \in HabitIds, a \in RespondActions : Runs("api") /\ BattleRespond2(id, a)
    \/ \E u \in UserIds : Runs("api") /\ GetHabits("api", u)

SpecBattle == InitBattle /\ [][NextBattle]_vars

----------------------------------------------------------------------------
(* The invitation to a battle between two different users, from creation to  *)
(* its answer: the same store, under the requests that create, delete,       *)
(* cancel and answer, with battles of the default duration                   *)

NextDuel ==
    \/ \E u \in UserIds : \E p \in {NoId} \cup (UserIds \ {u}) :
          Runs("server") /\ CreateHabit(u, p, 0)
    \/ \E id \in HabitIds : Runs("server") /\ DeleteHabit("server", id)
    \/ \E id \in HabitIds : Runs("server") /\ BattleCancel(id)
    \/ \E id \in HabitIds, a \in RespondActions : Runs("server") /\ BattleRespond(id, a)
    \/ \E u \in UserIds : \E p \in {NoId} \cup (UserIds \ {u}) :
          Runs("api") /\ CreateHabit2(u, p, 0)
    \/ \E id \in HabitIds : Runs("api") /\ DeleteHabit("api", id)
    \/ \E id \in HabitIds, a \in RespondActions : Runs("api") /\ BattleRespond2(id, a)

SpecDuel == InitBattle /\ [][NextDuel]_vars

----------------------------------------------------------------------------
(* The end of a battle by surrender on the standalone server: two users who  *)
(* have earned some XP invite, accept and surrender                          *)

\* what a user holds at the start: nothing, less than the penalty (a toggle
\* paid 15 and a Hell Week toggle 35), more than the penalty
StartXps == {0, 50, 150}

InitSurrender ==
    /\ users \in [UserIds -> {[NewUser EXCEPT !.platformXp = xp,
                                              !.level = calculateLevel(xp)] :
                                 xp \in StartXps}]
    /\ habits = << >>
    /\ now = 0
    /\ last = NoRequest
    /\ calls = << >>

NextSurrender ==
    \/ \E u \in UserIds, p \in UserIds : CreateHabit(u, p, 0)
    \/ \E id \in HabitIds : BattleRespond(id, "accept")
    \/ \E id \in HabitIds : BattleSurrender(id)

SpecSurrender == InitSurrender /\ [][NextSurrender]_vars

----------------------------------------------------------------------------
(* The expiry of battles: two users who invite each other to battles of 3 or *)
(* of 7 days, accept, surrender and list their battles while the days pass,  *)
(* under the standalone server or under the serverless entry point           *)

NextSweep ==
    \/ \E u \in UserIds : \E p \in UserIds \ {u} : \E d \in Durations :
          Runs("server") /\ CreateHabit(u, p, d)
    \/ \E id \in HabitIds : Runs("server") /\ BattleRespond(id, "accept")
    \/ \E id \in HabitIds : Runs("server") /\ BattleSurrender(id)
    \/ \E u \in UserIds : Runs("server") /\ GetBattles("server", u)
    \/ \E u \in UserIds : \E p \in UserIds \ {u} : \E d \in Durations :
          Runs("api") /\ CreateHabit2(u, p, d)
    \/ \E id \in HabitIds : Runs("api") /\ BattleRespond2(id, "accept")
    \/ \E u \in UserIds : Runs("api") /\ GetBattles("api", u)
    \/ DayTick

SpecSweep == InitBattle /\ [][NextSweep]_vars

----------------------------------------------------------------------------
(* The friends of two registered users, each with the friend code the        *)
(* pre-save hook gave, under the standalone server or under the serverless   *)
(* entry point                                                               *)

\* a user after /register: the hook has given a code no other user carries
Registered(u) == [NewUser EXCEPT !.friendCode = [code |-> u, upper |-> TRUE]]

InitSocial ==
    /\ users = [u \in UserIds |-> Registered(u)]
    /\ habits = << >>
    /\ now = 0
    /\ last = NoRequest
    /\ calls = << >>

NextSocial ==
    \/ \E userId \in IdTexts, friendCode \in CodeTexts :
          Runs("server") /\ AddFriend("server", userId, friendCode)
    \/ \E userId \in IdTexts, requesterId \in IdTexts, action \in HandleActions :
          Runs("server") /\ HandleRequest("server", userId, requesterId, action)
    \/ \E userId \in IdTexts, friendCode \in CodeTexts :
          Runs("api") /\ AddFriend("api", userId, friendCode)
    \/ \E userId \in IdTexts, requesterId \in IdTexts, action \in HandleActions :
          Runs("api") /\ HandleRequest("api", userId, requesterId, action)

SpecSocial == InitSocial /\ [][NextSocial]_vars

----------------------------------------------------------------------------
(* Registrations that run together on the standalone server, from an empty   *)
(* User collection                                                           *)

InitRegister ==
    /\ users = << >>
    /\ habits = << >>
    /\ now = 0
    /\ last = NoRequest
    /\ calls = << >>

NextRegister ==
    \/ \E p \in UserIds : RegisterBegin(p)
    \/ \E p \in UserIds : RegisterFindOne(p)
    \/ \E p \in UserIds : RegisterInsert(p)

SpecRegister == InitRegister /\ [][NextRegister]_vars

----------------------------------------------------------------------------
(* Invitations on the standalone server whose acceptance may stop on its     *)
(* way: the requests are served one after the other, and an acceptance is    *)
(* served save by save                                                       *)

\* no request is in flight
Quiet == calls = << >>

NextCrash ==
    \/ \E u \in UserIds : \E p \in UserIds \ {u} : Quiet /\ CreateHabit(u, p, 0)
    \/ \E c \in CallIds, id \in HabitIds : Quiet /\ AcceptBegin(c, id)
    \/ \E c \in CallIds : AcceptSave(c)
    \/ \E c \in CallIds : AcceptStop(c)
    \/ \E id \in HabitIds : Quiet /\ BattleRespond(id, "reject")

SpecCrash == InitBattle /\ [][NextCrash]_vars

----------------------------------------------------------------------------
(* The levelling policy on its own: a user document holding any XP of        *)
(* 0..MaxLevelXp at level 1, whose level GET /user/:id recomputes             *)

InitLevel ==
    /\ \E xp \in 0..MaxLevelXp : users = (1 :> [NewUser EXCEPT !.platformXp = xp])
    /\ habits = << >>
    /\ now = 0
    /\ last = NoRequest
    /\ calls = << >>

NextLevel == GetUser(1)

SpecLevel == InitLevel /\ [][NextLevel]_vars

----------------------------------------------------------------------------
(* Reading the store and a step *)

\* whether date is in the completedDates of habit h of the collection hs
DoneIn(hs, h, date) == indexOf(hs[h].completedDates, date) > -1

\* the grantedAt of the grant record of date in habit h of the collection hs,
\* NoDate when it has none
GrantIn(hs, h, date) ==
    IF findGrant(hs[h].xpGrantedDates, date) > 0
    THEN hs[h].xpGrantedDates[findGrant(hs[h].xpGrantedDates, date)].grantedAt
    ELSE NoDate

\* the step serves a request op that found its document (the clock stands
\* still while a request is served)
Serves(op) == now' = now /\ last'.op = op /\ last'.status # 404

----------------------------------------------------------------------------
(* C1: XP is paid at most once per habit date.  A toggle that checks a date  *)
(* (the date is not in completedDates) pays the owner the award (15, or 35   *)
(* during Hell Week) and records a grant stamped now exactly when the habit  *)
(* holds no grant record for the date, and pays 0 when it holds one; and     *)
(* xpGrantedDates never holds two entries for one date.                      *)
(* The serverless toggle handler pays on every check and records no grant.   *)

C1_PaidOncePerDate ==
    [][ (/\ Serves("toggle")
         /\ last'.uid \in DOMAIN users
         /\ ~DoneIn(habits, last'.hid, last'.date))
        => LET h    == last'.hid
               d    == last'.date
               u    == last'.uid
               paid == users'[u].platformXp - users[u].platformXp
           IN  /\ IF GrantIn(habits, h, d) = NoDate
                  THEN /\ paid = IF users[u].hellWeek.isActive THEN 35 ELSE 15
                       /\ GrantIn(habits', h, d) = now
                  ELSE /\ paid = 0
                       /\ GrantIn(habits', h, d) = GrantIn(habits, h, d)
               /\ \A e \in Dates :
                     Cardinality({i \in DOMAIN habits'[h].xpGrantedDates :
                                     habits'[h].xpGrantedDates[i].date = e}) <= 1
      ]_vars

----------------------------------------------------------------------------
(* C2: a check of a date followed, with no request in between and less than  *)
(* 60 seconds later, by the uncheck of the same date of the same habit       *)
(* leaves platformXp as it was before the check and the date not completed.  *)

\* the step is the second of two such toggles; last describes the first
SecondToggle ==
    /\ Serves("toggle")
    /\ last.op = "toggle" /\ last.status = 200 /\ ~last.preDone
    /\ last'.sinceSame >= 0 /\ last'.sinceSame < UNDO_WINDOW_MS

\* as claimed: ... and leaves no grant record for the date
C2_ToggleTwiceNoGrant ==
    [][ SecondToggle
        => /\ last.uid \in DOMAIN users => users'[last.uid].platformXp = last.preXp
           /\ ~DoneIn(habits', last.hid, last.date)
           /\ GrantIn(habits', last.hid, last.date) = NoDate
      ]_vars

\* as amended: ... and leaves the date's grant record as it was before the
\* check: none when there was none, and the record of an earlier payment,
\* which the check found and did not pay again, where it was
C2_ToggleTwiceCancels ==
    [][ SecondToggle
        => /\ last.uid \in DOMAIN users => users'[last.uid].platformXp = last.preXp
           /\ ~DoneIn(habits', last.hid, last.date)
           /\ GrantIn(habits', last.hid, last.date) = last.preGrant
      ]_vars

\* an uncheck has followed a check within the window during Hell Week, took
\* back the 35 the check paid, and removed the check's grant record from a
\* ledger that holds the grant of another date
C2_Witness ==
    /\ last.op = "toggle" /\ last.status = 200
    /\ last.preDone
    /\ last.sinceSame = TickMs
    /\ last.preActive
    /\ last.preGrant = last.time - TickMs
    /\ users[last.uid].platformXp = last.preXp - 35
    /\ ~DoneIn(habits, last.hid, last.date)
    /\ GrantIn(habits, last.hid, last.date) = NoDate
    /\ \E d \in Dates \ {last.date} : GrantIn(habits, last.hid, d) # NoDate

----------------------------------------------------------------------------
(* C3: unchecking a completed date whose grant record is 60 seconds old or   *)
(* older leaves platformXp (the whole user) unchanged, removes the date from *)
(* completedDates and keeps the grant record; a grant record of a habit      *)
(* disappears only in an uncheck of its date less than 60 seconds after the  *)
(* grant.                                                                    *)

C3_LateUncheckKeepsXp ==
    [][ /\ \A h \in DOMAIN habits, d \in Dates :
             (/\ Serves("toggle") /\ last'.hid = h /\ last'.date = d
              /\ DoneIn(habits, h, d)
              /\ GrantIn(habits, h, d) # NoDate
              /\ now - GrantIn(habits, h, d) >= UNDO_WINDOW_MS)
             => /\ users' = users
                /\ ~DoneIn(habits', h, d)
                /\ GrantIn(habits', h, d) = GrantIn(habits, h, d)
        /\ \A h \in DOMAIN habits \cap DOMAIN habits', d \in Dates :
             (GrantIn(habits, h, d) # NoDate /\ GrantIn(habits', h, d) = NoDate)
             => /\ Serves("toggle") /\ last'.hid = h /\ last'.date = d
                /\ DoneIn(habits, h, d)
                /\ now - GrantIn(habits, h, d) < UNDO_WINDOW_MS
      ]_vars

\* a date has been unchecked 60 seconds or more after its grant: the XP and
\* the grant record are as before, the date is no longer completed, and
\* another date of the habit still is
C3_Witness ==
    /\ last.op = "toggle" /\ last.status = 200
    /\ last.preDone
    /\ last.preGrant # NoDate
    /\ last.time - last.preGrant >= UNDO_WINDOW_MS
    /\ last.preXp > 0
    /\ users[last.uid].platformXp = last.preXp
    /\ ~DoneIn(habits, last.hid, last.date)
    /\ GrantIn(habits, last.hid, last.date) = last.preGrant
    /\ \E d \in Dates \ {last.date} : DoneIn(habits, last.hid, d)

----------------------------------------------------------------------------
(* C4: platformXp of every user is at least 0 in every reachable state.      *)

C4_XpNeverNegative == \A u \in DOMAIN users : users[u].platformXp >= 0

\* a battle surrender has charged a user who held less than the penalty
C4_Witness ==
    /\ last.op = "battleSurrender" /\ last.status = 200
    /\ last.preXp > 0 /\ last.preXp < 100
    /\ users[last.uid].platformXp = 0

----------------------------------------------------------------------------
(* C5: no step stores a level lower than the level the user had before it.   *)
(* The serverless toggle and get-user handlers store calculateLevel(XP),     *)
(* which is lower once XP has dropped below a threshold.                     *)

C5_LevelNeverDecreases ==
    [][ \A u \in DOMAIN users : users'[u].level >= users[u].level ]_vars

----------------------------------------------------------------------------
(* C6: for every XP of 0..MaxLevelXp, calculateLevel(xp) is the number of    *)
(* entries of the threshold table that are <= xp, which is what a get-user   *)
(* stores for a user at level 1; it is between 1 and 12, does not decrease   *)
(* from xp to xp + 1, and is 1 at 0, 2 at 100, 11 at 19999 and 12 at 20000.  *)

ThresholdsMet(xp) ==
    Cardinality({i \in 1..12 :
        <<0, 100, 300, 600, 1000, 1500, 2100, 2800, 3600, 5000, 10000, 20000>>[i] <= xp})

C6_LevelCountsThresholds ==
    \A u \in DOMAIN users :
        LET xp == users[u].platformXp
        IN  /\ calculateLevel(xp) = ThresholdsMet(xp)
            /\ calculateLevel(xp) \in 1..12
            /\ calculateLevel(xp) <= calculateLevel(xp + 1)
            /\ xp = 0 => calculateLevel(xp) = 1
            /\ xp = 100 => calculateLevel(xp) = 2
            /\ xp = 19999 => calculateLevel(xp) = 11
            /\ xp = 20000 => calculateLevel(xp) = 12
            /\ last.op = "getUser" => users[u].level = ThresholdsMet(xp)

\* a get-user has raised a user holding 20000 XP to level 12
C6_Witness ==
    /\ last.op = "getUser" /\ last.status = 200
    /\ last.preLevel = 1
    /\ users[last.uid].platformXp = 20000
    /\ users[last.uid].level = 12

----------------------------------------------------------------------------
(* C7: a Hell Week start by a user who is already in Hell Week or whose      *)
(* level is below 4 is answered 400 and leaves the user as it was; any other *)
(* start sets isActive and a targetDate 7 days after the startDate.          *)
(* The serverless handler does not look at the level.                        *)

C7_HellWeekStart ==
    [][ (Serves("hellWeek") /\ last'.action = "start")
        => LET u == last'.uid
           IN  IF users[u].hellWeek.isActive \/ users[u].level < 4
               THEN last'.status = 400 /\ users'[u] = users[u]
               ELSE /\ users'[u].hellWeek.isActive
                    /\ users'[u].hellWeek.targetDate =
                           users'[u].hellWeek.startDate + WeekMs
      ]_vars

----------------------------------------------------------------------------
(* C8: from an active Hell Week, surrender ends it and sets platformXp to    *)
(* max(0, platformXp - 700), fail ends it and sets platformXp to             *)
(* max(0, platformXp - 500); the level stays as it was.                      *)
(* The serverless handler charges a surrender 500 and ignores fail.          *)

C8_SurrenderAndFail ==
    [][ (/\ Serves("hellWeek") /\ last'.action \in {"surrender", "fail"}
         /\ users[last'.uid].hellWeek.isActive)
        => LET u == last'.uid
               penalty == IF last'.action = "surrender" THEN 700 ELSE 500
           IN  /\ ~users'[u].hellWeek.isActive
               /\ users'[u].platformXp = Max(0, users[u].platformXp - penalty)
               /\ users'[u].level = users[u].level
      ]_vars

----------------------------------------------------------------------------
(* C9: from an active Hell Week, complete ends it, adds exactly 1000 to      *)
(* platformXp and sets the level to the larger of the level before and       *)
(* calculateLevel of the new platformXp.                                     *)

C9_Complete ==
    [][ (/\ Serves("hellWeek") /\ last'.action = "complete"
         /\ users[last'.uid].hellWeek.isActive)
        => LET u == last'.uid
           IN  /\ ~users'[u].hellWeek.isActive
               /\ users'[u].platformXp = users[u].platformXp + 1000
               /\ users'[u].level =
                      Max(users[u].level, calculateLevel(users'[u].platformXp))
      ]_vars

\* a Hell Week has been completed by a user whose level was above the level
\* of the new XP: the level stayed
C9_Witness ==
    /\ last.op = "hellWeek" /\ last.action = "complete" /\ last.status = 200
    /\ last.preActive
    /\ ~users[last.uid].hellWeek.isActive
    /\ users[last.uid].platformXp = last.preXp + 1000
    /\ users[last.uid].level = last.preLevel
    /\ last.preLevel > calculateLevel(users[last.uid].platformXp)

----------------------------------------------------------------------------
(* C10: creating a habit with a partner P adds exactly two documents that   *)
(* share one sharedGroupId no stored habit carried and one battleDuration   *)
(* (7 when none is given): the creator's, of type battle, waiting and       *)
(* visible, and the invitee's, owned by P, of type battle, pending, hidden, *)
(* with partnerId the creator; creating without a partner adds one document *)
(* of type solo, active, with no sharedGroupId.                             *)
(* The standalone server creates the creator's document hidden.             *)

C10_CreateHabit ==
    [][ Serves("createHabit")
        => LET created  == DOMAIN habits' \ DOMAIN habits
               u        == last'.uid
               p        == last'.partner
               duration == IF last'.duration = 0 THEN 7 ELSE last'.duration
           IN  /\ \A h \in DOMAIN habits : h \in DOMAIN habits' /\ habits'[h] = habits[h]
               /\ IF p # NoId
                  THEN \E c \in created, i \in created :
                         /\ c # i /\ created = {c, i}
                         /\ habits'[c].sharedGroupId = habits'[i].sharedGroupId
                         /\ habits'[c].sharedGroupId # NoId
                         /\ \A h \in DOMAIN habits :
                               habits[h].sharedGroupId # habits'[c].sharedGroupId
                         /\ habits'[c].battleDuration = duration
                         /\ habits'[i].battleDuration = duration
                         /\ habits'[c].userId = u
                         /\ habits'[c].type = "battle"
                         /\ habits'[c].battleStatus = "waiting"
                         /\ habits'[c].isVisible
                         /\ habits'[i].userId = p
                         /\ habits'[i].type = "battle"
                         /\ habits'[i].battleStatus = "pending"
                         /\ ~habits'[i].isVisible
                         /\ habits'[i].partnerId = u
                  ELSE \E c \in created :
                         /\ created = {c}
                         /\ habits'[c].userId = u
                         /\ habits'[c].type = "solo"
                         /\ habits'[c].battleStatus = "active"
                         /\ habits'[c].sharedGroupId = NoId
      ]_vars

----------------------------------------------------------------------------
(* Reading a battle group *)

\* the records of the collection hs that carry the sharedGroupId g
Group(hs, g) == {h \in DOMAIN hs : hs[h].sharedGroupId = g}

----------------------------------------------------------------------------
(* C11: when a respond with action accept is served for a pending record     *)
(* whose group holds the creator's waiting record, the group then holds two  *)
(* records, both active, both visible, both with the battleStartDate of the  *)
(* request's time; under the standalone server and under the serverless      *)
(* entry point.                                                              *)

C11_AcceptActivatesBoth ==
    [][ \A h \in DOMAIN habits :
          (/\ Serves("battleRespond") /\ last'.hid = h /\ last'.action = "accept"
           /\ habits[h].battleStatus = "pending"
           /\ habits[h].sharedGroupId # NoId
           /\ \E o \in Group(habits, habits[h].sharedGroupId) \ {h} :
                 habits[o].battleStatus = "waiting")
          => LET g == Group(habits', habits[h].sharedGroupId)
             IN  /\ Cardinality(g) = 2
                 /\ \A k \in g :
                       /\ habits'[k].battleStatus = "active"
                       /\ habits'[k].isVisible = TRUE
                       /\ habits'[k].battleStartDate = now
      ]_vars

\* the serverless entry point has served the invitee's accept of a pending
\* battle: the creator's record and the invitee's are active, visible and
\* started together
C11_Witness ==
    /\ last.app = "api" /\ last.op = "battleRespond" /\ last.action = "accept"
    /\ last.preStatus = "pending"
    /\ \E o \in last.prePeers :
          /\ o \in DOMAIN habits /\ last.hid \in DOMAIN habits
          /\ habits[o].userId # habits[last.hid].userId
          /\ habits[o].battleStatus = "active" /\ habits[last.hid].battleStatus = "active"
          /\ habits[o].isVisible /\ habits[last.hid].isVisible
          /\ habits[o].battleStartDate = last.time
          /\ habits[last.hid].battleStartDate = last.time

----------------------------------------------------------------------------
(* C12: when a respond with action reject is served for a pending record,    *)
(* the record is deleted, every other record of its group stays with         *)
(* battleStatus rejected and no other field changed, and no user changes.    *)

C12_RejectDeletesResponder ==
    [][ \A h \in DOMAIN habits :
          (/\ Serves("battleRespond") /\ last'.hid = h /\ last'.action = "reject"
           /\ habits[h].battleStatus = "pending"
           /\ habits[h].sharedGroupId # NoId)
          => /\ h \notin DOMAIN habits'
             /\ \A o \in Group(habits, habits[h].sharedGroupId) \ {h} :
                   /\ o \in DOMAIN habits'
                   /\ habits'[o] = [habits[o] EXCEPT !.battleStatus = "rejected"]
             /\ users' = users
      ]_vars

\* the invitee has rejected a pending battle: the record is gone and the
\* creator's record, which was waiting, is rejected
C12_Witness ==
    /\ last.op = "battleRespond" /\ last.action = "reject" /\ last.status = 200
    /\ last.preStatus = "pending"
    /\ last.hid \notin DOMAIN habits
    /\ \E o \in last.prePeers :
          /\ o \in DOMAIN habits
          /\ habits[o].battleStatus = "rejected"
          /\ habits[o].partnerId = last.uid

----------------------------------------------------------------------------
(* C13: when a cancel is served for a waiting record of a battle group, no   *)
(* record carries the group's sharedGroupId afterwards.                      *)

C13_CancelDeletesBoth ==
    [][ \A h \in DOMAIN habits :
          (/\ Serves("battleCancel") /\ last'.hid = h
           /\ habits[h].battleStatus = "waiting"
           /\ habits[h].sharedGroupId # NoId)
          => Group(habits', habits[h].sharedGroupId) = {}
      ]_vars

\* the creator has cancelled a waiting battle whose invitee's record existed:
\* both records are gone
C13_Witness ==
    /\ last.op = "battleCancel" /\ last.status = 200
    /\ last.preStatus = "waiting"
    /\ last.prePeers # {}
    /\ last.hid \notin DOMAIN habits
    /\ last.prePeers \cap DOMAIN habits = {}

----------------------------------------------------------------------------
(* C14: a surrender of an active battle whose two records exist marks both   *)
(* records completed and names the same winner on both, the owner of the     *)
(* record that did not surrender; the user who surrenders is left with       *)
(* max(0, platformXp - 100); every other user document, and the level of     *)
(* every user, is as it was.                                                 *)

----------------------------------------------------------------------------
(* C15: listing the battles of a user marks completed exactly those of the   *)
(* user's active battle records for which now is later than battleStartDate  *)
(* plus battleDuration days, and changes nothing else of the store: an       *)
(* active battle that has not expired stays active, a record that is already *)
(* completed stays as it is, and a listing that follows a listing of the     *)
(* same user at the same instant changes nothing.                            *)

\* the user's records that are battles in progress
ActiveBattlesOf(hs, u) ==
    {h \in DOMAIN hs : hs[h].userId = u /\ hs[h].type = "battle"
                                        /\ hs[h].battleStatus = "active"}

C15_ExpirySweep ==
    [][Serves("getBattles")
       => /\ DOMAIN habits' = DOMAIN habits
          /\ users' = users
          /\ \A h \in ActiveBattlesOf(habits, last'.uid) :
                IF now > habits[h].battleStartDate + habits[h].battleDuration * DayMs
                THEN habits'[h] = [habits[h] EXCEPT !.battleStatus = "completed"]
                ELSE habits'[h] = habits[h]
          /\ \A h \in DOMAIN habits \ ActiveBattlesOf(habits, last'.uid) :
                habits'[h] = habits[h]
          /\ (last.op = "getBattles" /\ last.uid = last'.uid /\ last.time = now)
                => habits' = habits]_vars

\* a listing has left a battle of the user completed with no winner, its time
\* over
C15_Witness ==
    /\ last.op = "getBattles" /\ last.status = 200 /\ last.time = now
    /\ \E h \in last.answer :
          /\ habits[h].userId = last.uid
          /\ habits[h].battleStatus = "completed"
          /\ habits[h].battleWinner = NoId
          /\ now > habits[h].battleStartDate + habits[h].battleDuration * DayMs

----------------------------------------------------------------------------
(* C16: the two records of a battle group carry the same battleStatus,       *)
(* unless one is waiting and the other pending.                              *)
(* The expiry sweep of GET /battles completes the records of the user who    *)
(* lists and leaves the opponent's record active.                            *)

C16_Lockstep ==
    \A a \in DOMAIN habits, b \in DOMAIN habits :
        (/\ a # b
         /\ habits[a].sharedGroupId # NoId
         /\ habits[a].sharedGroupId = habits[b].sharedGroupId)
        => \/ habits[a].battleStatus = habits[b].battleStatus
           \/ {habits[a].battleStatus, habits[b].battleStatus} = {"waiting", "pending"}

----------------------------------------------------------------------------
(* C17: a battle group holds two records from its creation on; only a        *)
(* cancel, which removes both, or a reject, which removes the responder's,   *)
(* takes a record out of a group, so that no other request leaves a group    *)
(* with a single record.                                                     *)
(* DELETE /habits/:id removes the one record it names and leaves the other   *)
(* record of the group alone.                                                *)

\* the sharedGroupId values of the records stored
GroupIds(hs) == {hs[h].sharedGroupId : h \in DOMAIN hs} \ {NoId}

C17_TwoPerGroup ==
    [][\A g \in GroupIds(habits) \cup GroupIds(habits') :
          LET before == Cardinality(Group(habits, g))
              after  == Cardinality(Group(habits', g))
          IN  \/ after = before
              \/ before = 0 /\ after = 2 /\ last'.op = "createHabit"
              \/ before = 2 /\ after = 0 /\ last'.op = "battleCancel"
              \/ before = 2 /\ after = 1 /\ last'.op = "battleRespond"
                                         /\ last'.action = "reject"]_vars

----------------------------------------------------------------------------
(* C18: the habit feed of a user answers exactly the user's records whose    *)
(* isVisible is not false and whose battleStatus is not completed; a hidden  *)
(* pending invite and a completed battle are not in it, and every other      *)
(* record of the user is: solo habits, the creator's waiting record, active  *)
(* battles.                                                                  *)
(* The standalone server stores the creator's waiting record hidden, and its *)
(* feed leaves the record out.                                               *)

C18_HabitFeed ==
    [][Serves("getHabits")
       => LET mine == {h \in DOMAIN habits : habits[h].userId = last'.uid}
              invites == {h \in mine : /\ habits[h].battleStatus = "pending"
                                        /\ habits[h].isVisible = FALSE}
              over == {h \in mine : habits[h].battleStatus = "completed"}
          IN  /\ last'.answer = {h \in mine : /\ habits[h].isVisible # FALSE
                                               /\ habits[h].battleStatus # "completed"}
              /\ last'.answer = mine \ (invites \cup over)
              /\ habits' = habits]_vars

----------------------------------------------------------------------------
(* C19: a friend request of a registered sender is refused, and no friends   *)
(* list and no queue changes, when the code resolves to no user, when the    *)
(* sender is the target, when the target is in the sender's friends, or when *)
(* the target's queue holds a request from the sender; otherwise one pending *)
(* entry from the sender is appended to the target's queue and nothing else  *)
(* changes.  No queue holds two requests from one sender.                    *)
(* A sender whose id is not written as toString() writes it is not found in  *)
(* the queue, and is appended a second time.                                 *)

\* x is an element of the sequence s
InSeq(s, x) == \E i \in 1..Len(s) : s[i] = x

\* the queue holds a request from the user
RequestFrom(queue, u) == \E i \in 1..Len(queue) : queue[i].from = u

\* no two entries of the queue are from one sender
OnePerSender(queue) ==
    \A i \in 1..Len(queue), j \in 1..Len(queue) :
        queue[i].from = queue[j].from => i = j

C19_AddFriend ==
    [][(now' = now /\ last'.op = "addFriend" /\ last'.uid \in DOMAIN users)
       => LET sender == last'.uid
              target == last'.partner
              refused == \/ target = NoId
                         \/ sender = target
                         \/ InSeq(users[sender].friends, target)
                         \/ RequestFrom(users[target].friendRequests, sender)
          IN  /\ IF refused
                 THEN last'.status \in {400, 404} /\ users' = users
                 ELSE /\ last'.status = 200
                      /\ users' = [users EXCEPT ![target].friendRequests =
                                      Append(@, [from |-> sender, status |-> "pending",
                                                 timestamp |-> now])]
              /\ \A u \in DOMAIN users : OnePerSender(users'[u].friendRequests)]_vars

----------------------------------------------------------------------------
(* C20: the friend graph is symmetric and free of duplicates: v is in the    *)
(* friends of u exactly when u is in the friends of v, and no user occurs    *)
(* twice in a friends list, so that a second accept for the same requester   *)
(* leaves one edge on each side.                                             *)
(* A second accept whose requesterId is not written as toString() writes it  *)
(* pushes the requester again; an accept with userId = requesterId pushes    *)
(* the user onto two copies of the one document.                             *)

C20_FriendGraph ==
    \A u \in DOMAIN users :
        /\ \A v \in DOMAIN users :
              InSeq(users[u].friends, v) <=> InSeq(users[v].friends, u)
        /\ \A i \in 1..Len(users[u].friends), j \in 1..Len(users[u].friends) :
              users[u].friends[i] = users[u].friends[j] => i = j

----------------------------------------------------------------------------
(* C21: every stored friend code has exactly 5 characters, each one of A-Z   *)
(* and 0-9; a code is given to a user when the user is stored and is never   *)
(* changed afterwards; no two stored users share a code, also when their     *)
(* saves run together: the store refuses the write of a code that is taken.  *)

\* the letters and digits of a friend code
UpperAlphanumerics ==
    {"A", "B", "C", "D", "E", "F", "G", "H", "I", "J", "K", "L", "M",
     "N", "O", "P", "Q", "R", "S", "T", "U", "V", "W", "X", "Y", "Z",
     "0", "1", "2", "3", "4", "5", "6", "7", "8", "9"}

C21_FriendCodes ==
    [][/\ \A u \in DOMAIN users' :
            /\ Len(users'[u].friendCode.code) = 5
            /\ \A i \in 1..5 : users'[u].friendCode.code[i] \in UpperAlphanumerics
       /\ \A u \in DOMAIN users', v \in DOMAIN users' :
            users'[u].friendCode = users'[v].friendCode => u = v
       /\ \A u \in DOMAIN users :
            u \in DOMAIN users' /\ users'[u].friendCode = users[u].friendCode]_vars

\* a registration whose code was free when the hook looked it up has been
\* refused by the store, because another registration stored the code first
C21_Witness ==
    /\ last.op = "register" /\ last.status = 400
    /\ last.uid \notin DOMAIN users
    /\ DOMAIN users # {}

----------------------------------------------------------------------------
(* C22: under toggles served one after the other, every habit holds each     *)
(* date at most once in completedDates, holds them in ascending order, and   *)
(* has currentStreak equal to the number of dates held.                      *)

C22_CompletedDates ==
    \A h \in DOMAIN habits :
        LET done == habits[h].completedDates
        IN  /\ \A i \in 1..Len(done), j \in 1..Len(done) :
                  /\ done[i] = done[j] => i = j
                  /\ i < j => done[i] < done[j]
            /\ habits[h].currentStreak = Len(done)

\* a toggle has checked a date earlier than one the habit already held
C22_Witness ==
    /\ last.op = "toggle" /\ last.status = 200 /\ ~ last.preDone
    /\ Len(habits[last.hid].completedDates) >= 2
    /\ habits[last.hid].completedDates[1] = last.date

----------------------------------------------------------------------------
(* C23: the Hell Week actions surrender, fail and complete, asked of a user  *)
(* whose hellWeek.isActive is false, change neither the platformXp nor the   *)
(* level of the user.                                                        *)
(* The handler does not read isActive for these actions: a complete pays     *)
(* 1000 to a user who is not in Hell Week, as often as it is asked.          *)

C23_TerminalOnlyFromActive ==
    [][(/\ Serves("hellWeek")
        /\ last'.action \in {"surrender", "fail", "complete"}
        /\ ~ users[last'.uid].hellWeek.isActive)
       => /\ users'[last'.uid].platformXp = users[last'.uid].platformXp
          /\ users'[last'.uid].level = users[last'.uid].level]_vars

----------------------------------------------------------------------------
(* C24: a surrender asked of a record whose battleStatus is not active (a    *)
(* completed, rejected, waiting or pending record), or of a solo habit,      *)
(* changes no battleStatus, no battleWinner and no platformXp.               *)
(* The handler does not read battleStatus: it completes the records and      *)
(* charges the 100 XP whatever the record's state, every time it is asked.   *)

C24_SurrenderOnlyActive ==
    [][(/\ Serves("battleSurrender")
        /\ \/ habits[last'.hid].battleStatus # "active"
           \/ habits[last'.hid].type = "solo")
       => /\ DOMAIN habits' = DOMAIN habits
          /\ \A h \in DOMAIN habits :
                /\ habits'[h].battleStatus = habits[h].battleStatus
                /\ habits'[h].battleWinner = habits[h].battleWinner
          /\ \A u \in DOMAIN users :
                users'[u].platformXp = users[u].platformXp]_vars

----------------------------------------------------------------------------
(* C25: a cancel asked of a record of a battle that is active or completed,  *)
(* or of the invitee's pending record, deletes no Habit record.              *)
(* The handler does not read battleStatus: it deletes the record named and   *)
(* the other record of its group whatever their state.                       *)

C25_CancelOnlyBeforeAccept ==
    [][(/\ Serves("battleCancel")
        /\ habits[last'.hid].battleStatus \in {"active", "completed", "pending"}
        /\ habits[last'.hid].type = "battle")
       => DOMAIN habits' = DOMAIN habits]_vars

----------------------------------------------------------------------------
(* C26: an acceptance that read its record pending and stops between its two *)
(* saves, by a crash or by a save that fails, has made the other record of   *)
(* the group active and leaves its own record pending: one side of the pair  *)
(* is active, the other is not, and the request takes no further step.      *)

C26_AcceptNotAtomic ==
    [][\A c \in DOMAIN calls :
          (/\ calls[c].op = "accept"
           /\ calls[c].was = "pending"
           /\ Len(calls[c].writes) = 2 /\ calls[c].saved = 1
           /\ c \notin DOMAIN calls' /\ habits' = habits)
          => LET mine   == calls[c].hid
                 others == Group(habits, habits[mine].sharedGroupId) \ {mine}
             IN  /\ habits'[mine].battleStatus = "pending"
                 /\ others # {}
                 /\ \A o \in others :
                       /\ habits'[o].battleStatus = "active"
                       /\ habits'[o].battleStartDate = calls[c].startDate
                 /\ \A d \in DOMAIN calls' : d # c]_vars

\* no request is in flight, and a group is left with one record active and
\* the other pending
C26_Witness ==
    /\ calls = << >>
    /\ \E a \in DOMAIN habits, b \in DOMAIN habits :
          /\ a # b
          /\ habits[a].sharedGroupId = habits[b].sharedGroupId
          /\ habits[a].battleStatus = "active"
          /\ habits[b].battleStatus = "pending"

----------------------------------------------------------------------------
(* C28: every request handled is answered: the handler has sent a response,  *)
(* the success body or an error body, whatever the value of the action       *)
(* field.                                                                    *)
(* The if/else chains of the hell-week and battle-respond handlers end       *)
(* without an else: an action that is none of those they name falls through  *)
(* the try block, and the handler returns with no response sent.             *)

C28_EveryRequestAnswered ==
    last.op # "init" => last.status # 0

----------------------------------------------------------------------------
(* C29: a toggle that grants (the date is neither completed nor granted)     *)
(* changes the owner's platformXp by +35 while the owner's Hell Week is      *)
(* active and by +15 while it is not; a toggle that undoes within the window *)
(* changes it by -35 while active and by -15 while not, the floor at 0       *)
(* applied to the sum; every other toggle leaves the users as they were. No  *)
(* toggle changes a user other than the owner.                               *)

\* the change the claim gives the toggle of date d of habit h in this state
C29_Delta(h, d) ==
    LET active == users[habits[h].userId].hellWeek.isActive
        grant  == ~DoneIn(habits, h, d) /\ GrantIn(habits, h, d) = NoDate
        refund == /\ DoneIn(habits, h, d)
                  /\ GrantIn(habits, h, d) # NoDate
                  /\ now - GrantIn(habits, h, d) < UNDO_WINDOW_MS
    IN  IF grant THEN (IF active THEN 35 ELSE 15)
        ELSE IF refund THEN (IF active THEN -35 ELSE -15)
        ELSE 0

C29_HellWeekToggle ==
    [][\A h \in DOMAIN habits, d \in Dates :
          (/\ Serves("toggle") /\ last'.hid = h /\ last'.date = d
           /\ habits[h].userId \in DOMAIN users)
          => LET owner == habits[h].userId
             IN  IF C29_Delta(h, d) = 0
                 THEN users' = users
                 ELSE /\ users'[owner].platformXp =
                            Max(0, users[owner].platformXp + C29_Delta(h, d))
                      /\ \A u \in DOMAIN users \ {owner} : users'[u] = users[u]
      ]_vars

\* an undo in Hell Week has taken the last XP of a user who held less than
\* 35: the floor applied to the inflated change
C29_Witness ==
    /\ last.op = "toggle" /\ last.status = 200
    /\ last.preActive /\ last.preDone
    /\ last.preGrant # NoDate /\ last.time - last.preGrant < UNDO_WINDOW_MS
    /\ last.preXp > 0 /\ last.preXp < 35
    /\ users[last.uid].platformXp = 0

----------------------------------------------------------------------------
(* C30: a cancel, a respond or a surrender that is served leaves every Habit *)
(* record outside the target's group as it was: every record other than the  *)
(* target that does not share a non-null sharedGroupId with it is still in   *)
(* the collection, unchanged. In particular, asked of a solo habit, the      *)
(* three operations touch no other record.                                   *)
(* The three handlers look the other record up with the filter               *)
(* {sharedGroupId: myHabit.sharedGroupId, _id: {$ne: myHabit._id}}; for a    *)
(* solo habit the sharedGroupId is null, and the filter matches any other    *)
(* solo habit of any user, which the handler then deletes, activates,        *)
(* rejects or completes.                                                     *)

C30_BattleOps == {"battleCancel", "battleRespond", "battleSurrender"}

C30_ConfinedToGroup ==
    [][\A t \in DOMAIN habits :
          (/\ \E op \in C30_BattleOps : Serves(op)
           /\ last'.hid = t)
          => \A h \in DOMAIN habits \ {t} :
                (\/ habits[t].sharedGroupId = NoId
                 \/ habits[h].sharedGroupId # habits[t].sharedGroupId)
                => /\ h \in DOMAIN habits'
                   /\ habits'[h] = habits[h]
      ]_vars

----------------------------------------------------------------------------
(* C31: a Habit record whose battleStatus is completed keeps that            *)
(* battleStatus under every respond, surrender and battle sweep that leaves  *)
(* it in the collection, and a battleWinner that is assigned stays the same  *)
(* user.                                                                     *)
(* Neither the respond nor the surrender handler reads battleStatus: an      *)
(* accept asked of a completed record makes both records of the group active *)
(* again, and a surrender asked by the winner of a completed battle names    *)
(* the other user the winner on both records.                                *)

C31_TerminalOps == {"battleRespond", "battleSurrender", "getBattles"}

C31_CompletedIsTerminal ==
    [][\A h \in DOMAIN habits \cap DOMAIN habits' :
          (/\ \E op \in C31_TerminalOps : Serves(op)
           /\ habits[h].battleStatus = "completed")
          => /\ habits'[h].battleStatus = "completed"
             /\ habits[h].battleWinner # NoId
                   => habits'[h].battleWinner = habits[h].battleWinner
      ]_vars

----------------------------------------------------------------------------
(* C32: in every state the standalone server reaches by toggles, Hell Week   *)
(* actions, battle surrenders and get-user requests served one after the     *)
(* other, the stored level of every user is at least calculateLevel of the   *)
(* stored platformXp.                                                        *)

C32_LevelNeverBehind ==
    \A u \in DOMAIN users :
        users[u].level >= calculateLevel(users[u].platformXp)

\* a check has taken a user of level 1 across the threshold of level 2, and
\* the toggle stored the new level
C32_Witness ==
    /\ last.op = "toggle" /\ last.status = 200
    /\ last.preLevel = 1
    /\ last.preXp < LEVEL_THRESHOLDS[2]
    /\ users[last.uid].platformXp >= LEVEL_THRESHOLDS[2]
    /\ users[last.uid].level = 2

----------------------------------------------------------------------------
(* C33: no user is in their own friends list, and a user v enters the        *)
(* friends list of a user u only in a handle-request with action accept      *)
(* between the two of them, served while the queue of the accepting user     *)
(* held a request from the requester.                                        *)
(* The handler filters the queue and pushes the edges without looking        *)
(* whether the filter removed anything, and does not compare userId with     *)
(* requesterId: an accept creates the edge between any two users, asked or   *)
(* not, and with the two ids equal it makes the user their own friend.       *)

C33_EdgesFromRequests ==
    [][/\ \A u \in DOMAIN users' : ~InSeq(users'[u].friends, u)
       /\ \A u \in DOMAIN users, v \in DOMAIN users :
             (InSeq(users'[u].friends, v) /\ ~InSeq(users[u].friends, v))
             => /\ last'.op = "handleRequest" /\ last'.action = "accept"
                /\ {u, v} = {last'.uid, last'.partner}
                /\ RequestFrom(users[last'.uid].friendRequests, last'.partner)
      ]_vars

====
